---------------------------- MODULE Spec2Model ----------------------------
(***************************************************************************)
(* Move generation of letterpwn (lib/letterpress.js): the memoized         *)
(* pipeline getMovesForBoard and the helpers it is built from.             *)
(*                                                                         *)
(* Letters are numbered 1..26 ('a' = 1, 'b' = 2, ...); a string is the     *)
(* sequence of its letters.  Board positions are 0..24 as in the code;     *)
(* TLA+ sequences are 1-based, so board[i] of the code is board[i + 1].    *)
(* Bitmasks are the code's integers.                                       *)
(***************************************************************************)
EXTENDS Integers, Sequences, FiniteSets, TLC

MAX_FREQUENCY == 24
DEFAULT_FREQUENCY == 15
BOARD_SIZE == 25

-----------------------------------------------------------------------------
(* Integer bit operations of JavaScript on the non-negative values used.   *)

(* x & y and x | y are taken five bits at a time, from the tables of the   *)
(* five-bit operands.                                                      *)

RECURSIVE And1(_, _)
And1(x, y) ==
  IF x = 0 \/ y = 0 THEN 0
  ELSE (x % 2) * (y % 2) + 2 * And1(x \div 2, y \div 2)

\* And5[x + 1][y + 1] = x & y; written as a concatenation, the table is
\* evaluated once
And5 == [x \in 1..32 |-> [y \in 1..32 |-> And1(x - 1, y - 1)] \o <<>>] \o <<>>

RECURSIVE BitAnd(_, _)
BitAnd(x, y) ==
  IF x = 0 \/ y = 0 THEN 0
  ELSE And5[(x % 32) + 1][(y % 32) + 1] + 32 * BitAnd(x \div 32, y \div 32)

\* x | y = x + y - (x & y)
BitOr(x, y) == x + y - BitAnd(x, y)

\* 1 << p, on 32-bit integers, for the shift counts 0..30
ShiftLeft1(p) == 2 ^ p

\* the positions of the set bits of a mask
BitsOf(m) == {i \in 0..(BOARD_SIZE - 1) : (m \div (2 ^ i)) % 2 = 1}

-----------------------------------------------------------------------------
(* Array.prototype.sort() without a comparator: elements are compared as   *)
(* strings, code unit by code unit.                                        *)

toString(n) == IF n < 10 THEN <<n>> ELSE <<n \div 10, n % 10>>

RECURSIVE StrLess(_, _)
StrLess(s, t) ==
  IF t = <<>> THEN FALSE
  ELSE IF s = <<>> THEN TRUE
  ELSE IF s[1] # t[1] THEN s[1] < t[1]
  ELSE StrLess(Tail(s), Tail(t))

RECURSIVE InsertDefault(_, _)
InsertDefault(x, s) ==
  IF s = <<>> THEN <<x>>
  ELSE IF StrLess(toString(x), toString(s[1])) THEN <<x>> \o s
  ELSE <<s[1]>> \o InsertDefault(x, Tail(s))

RECURSIVE DefaultSort(_)
DefaultSort(arr) ==
  IF arr = <<>> THEN <<>>
  ELSE InsertDefault(arr[Len(arr)], DefaultSort(SubSeq(arr, 1, Len(arr) - 1)))

-----------------------------------------------------------------------------
(* kCombinations(set, count): kc(count, start, curr) loops i from start.   *)

\* what the iterations lo..hi of a loop push onto results, in loop order
RECURSIVE ConcatAll(_, _, _)
ConcatAll(pushed, lo, hi) ==
  IF lo > hi THEN <<>>
  ELSE IF lo = hi THEN pushed[lo]
  ELSE LET mid == (lo + hi) \div 2
       IN  ConcatAll(pushed, lo, mid) \o ConcatAll(pushed, mid + 1, hi)

RECURSIVE kc(_, _, _, _)
kc(set, count, start, curr) ==
  LET pushed == [i \in start..Len(set) |->
                   LET myCurr == Append(curr, set[i])
                   IN  IF count = 1 THEN <<DefaultSort(myCurr)>>
                       ELSE kc(set, count - 1, i + 1, myCurr)]
  IN  ConcatAll(pushed, start, Len(set))

\* variant: the recursion restarts at i instead of i + 1, so a position
\* can be taken twice
RECURSIVE kcRepeat(_, _, _, _)
kcRepeat(set, count, start, curr) ==
  LET pushed == [i \in start..Len(set) |->
                   LET myCurr == Append(curr, set[i])
                   IN  IF count = 1 THEN <<DefaultSort(myCurr)>>
                       ELSE kcRepeat(set, count - 1, i, myCurr)]
  IN  ConcatAll(pushed, start, Len(set))

kCombinationsRepeat(set, count) ==
  IF count # 0 THEN kcRepeat(set, count, 1, <<>>) ELSE <<>>

kCombinations(set, count) ==
  IF count # 0 THEN kc(set, count, 1, <<>>) ELSE <<>>

(* flattenCombos(posCombos): pc(i, curr) loops j over posCombos[i].        *)

RECURSIVE pc(_, _, _)
pc(posCombos, i, curr) ==
  LET opts == posCombos[i]
      pushed == [j \in 1..Len(opts) |->
                   LET myCurr == curr \o opts[j]
                   IN  IF i = Len(posCombos) THEN <<DefaultSort(myCurr)>>
                       ELSE pc(posCombos, i + 1, myCurr)]
  IN  ConcatAll(pushed, 1, Len(opts))

flattenCombos(posCombos) ==
  IF Len(posCombos) > 0 THEN pc(posCombos, 1, <<>>) ELSE <<>>


-----------------------------------------------------------------------------
(* getBitMaskForPositions(positions): OR of 1 << p over the positions.     *)

\* positions.forEach from the k-th position on
RECURSIVE orPositions(_, _, _)
orPositions(positions, k, bitMask) ==
  IF k > Len(positions) THEN bitMask
  ELSE orPositions(positions, k + 1, BitOr(bitMask, ShiftLeft1(positions[k])))

\* variant: bitMask = (1 << p) in place of bitMask |= (1 << p)
getBitMaskForPositionsAssign(positions) ==
  IF positions = <<>> THEN 0 ELSE ShiftLeft1(positions[Len(positions)])

\* variant: bitMask += (1 << p) in place of bitMask |= (1 << p)
RECURSIVE addPositions(_, _, _)
addPositions(positions, k, bitMask) ==
  IF k > Len(positions) THEN bitMask
  ELSE addPositions(positions, k + 1, bitMask + ShiftLeft1(positions[k]))

getBitMaskForPositionsAdd(positions) == addPositions(positions, 1, 0)

getBitMaskForPositions(positions) == orPositions(positions, 1, 0)

(* lib/adjacent: one entry <<cellBit, requiredNeighborMask>> per cell of   *)
(* the 5 x 5 board; the neighbours of a cell are the cells above, below,   *)
(* left and right of it.                                                   *)

Neighbors(i) ==
  {j \in 0..(BOARD_SIZE - 1) :
     \/ (j = i - 5)
     \/ (j = i + 5)
     \/ (j = i - 1 /\ i % 5 # 0)
     \/ (j = i + 1 /\ i % 5 # 4)}

RECURSIVE MaskOfSet(_)
MaskOfSet(S) ==
  IF S = {} THEN 0
  ELSE LET i == CHOOSE x \in S : TRUE IN 2 ^ i + MaskOfSet(S \ {i})

adjacent ==
  [i \in 1..BOARD_SIZE |-> <<2 ^ (i - 1), MaskOfSet(Neighbors(i - 1))>>] \o <<>>

(* getCapturedBitMask(moveBitMask): adjacent.forEach, in table order.      *)

RECURSIVE capturedLoop(_, _, _)
capturedLoop(moveBitMask, k, capturedBitMask) ==
  IF k > Len(adjacent) THEN capturedBitMask
  ELSE LET a == adjacent[k]
       IN  capturedLoop(moveBitMask, k + 1,
             IF BitAnd(a[1], moveBitMask) # 0 /\ BitAnd(a[2], moveBitMask) = a[2]
             THEN BitOr(capturedBitMask, a[1])
             ELSE capturedBitMask)

\* variant: one neighbour in the move is enough, (a[1] & moveBitMask) != 0
RECURSIVE capturedLoopAny(_, _, _)
capturedLoopAny(moveBitMask, k, capturedBitMask) ==
  IF k > Len(adjacent) THEN capturedBitMask
  ELSE LET a == adjacent[k]
       IN  capturedLoopAny(moveBitMask, k + 1,
             IF BitAnd(a[1], moveBitMask) # 0 /\ BitAnd(a[2], moveBitMask) # 0
             THEN BitOr(capturedBitMask, a[1])
             ELSE capturedBitMask)

getCapturedBitMaskAny(moveBitMask) == capturedLoopAny(moveBitMask, 1, 0)

getCapturedBitMask(moveBitMask) == capturedLoop(moveBitMask, 1, 0)

(* countBits(x): strips one set bit per iteration (x &= x - 1).            *)

RECURSIVE countBits(_)
countBits(x) == IF x = 0 THEN 0 ELSE 1 + countBits(BitAnd(x, x - 1))

(* A move is <<bitMask, word, capturedBitMask>>.                           *)
(* byScore(a, b): (b[2] - a[2]) || (b[1].length - a[1].length),            *)
(* with the code's 0-based indices.                                        *)

byScore(a, b) ==
  IF b[3] - a[3] # 0 THEN b[3] - a[3] ELSE Len(b[2]) - Len(a[2])


(* Array.prototype.sort(comparefn) of the engine: the elements in          *)
(* non-decreasing comparefn order, equal elements in their input order.    *)
(* (An engine whose sort is not stable may order equal elements            *)
(* differently; no property below depends on their order.)                 *)

\* s and t sorted, s before t in the input: an element of t goes before
\* an element of s only when comparefn puts it strictly first
RECURSIVE mergeByScore(_, _)
mergeByScore(s, t) ==
  IF s = <<>> THEN t
  ELSE IF t = <<>> THEN s
  ELSE LET mid == (Len(s) + 1) \div 2
           p == Cardinality({j \in DOMAIN t : byScore(s[mid], t[j]) > 0})
       IN  mergeByScore(SubSeq(s, 1, mid - 1), SubSeq(t, 1, p))
           \o <<s[mid]>>
           \o mergeByScore(SubSeq(s, mid + 1, Len(s)), SubSeq(t, p + 1, Len(t)))

RECURSIVE sortByScore(_)
sortByScore(moves) ==
  IF Len(moves) <= 1 THEN moves
  ELSE LET h == Len(moves) \div 2
       IN  mergeByScore(sortByScore(SubSeq(moves, 1, h)),
                        sortByScore(SubSeq(moves, h + 1, Len(moves))))

-----------------------------------------------------------------------------
(* data/words: the dictionary, entries <<word, canonical letters,          *)
(* frequency>>.  A sample with repeated letters, letters most boards       *)
(* lack, and frequencies below, at and above the thresholds asked for.     *)

words ==
  << << <<1>>,             <<1>>,             15 >>,   \* "a"
     << <<1, 1>>,          <<1, 1>>,          20 >>,   \* "aa"
     << <<1, 2>>,          <<1, 2>>,          24 >>,   \* "ab"
     << <<3, 1, 2>>,       <<1, 2, 3>>,       15 >>,   \* "cab"
     << <<5, 2, 2>>,       <<2, 2, 5>>,        9 >>,   \* "ebb"
     << <<2, 1, 4>>,       <<1, 2, 4>>,       18 >>,   \* "bad"
     << <<1, 2, 2, 1>>,    <<1, 1, 2, 2>>,    16 >>,   \* "abba"
     << <<3, 3, 3>>,       <<3, 3, 3>>,       24 >>,   \* "ccc"
     << <<3, 1, 2, 2, 1>>, <<1, 1, 2, 2, 3>>, 15 >> >> \* "cabba"

(* lib/set: getCanonical(string) is the sorted array of its letters;       *)
(* isSubset(set, sub) holds when set has every letter of sub at least as   *)
(* often as sub has it.  The containing set comes first, as in the call    *)
(* set.isSubset(boardSet, struct[1]) of getWordStructsForBoard.            *)

CountOf(arr, c) == Cardinality({i \in DOMAIN arr : arr[i] = c})

RECURSIVE InsertLetter(_, _)
InsertLetter(x, s) ==
  IF s = <<>> THEN <<x>>
  ELSE IF x < s[1] THEN <<x>> \o s
  ELSE <<s[1]>> \o InsertLetter(x, Tail(s))

RECURSIVE getCanonical(_)
getCanonical(str) ==
  IF str = <<>> THEN <<>>
  ELSE InsertLetter(str[Len(str)], getCanonical(SubSeq(str, 1, Len(str) - 1)))

isSubset(set, sub) ==
  \A i \in DOMAIN sub : CountOf(sub, sub[i]) <= CountOf(set, sub[i])

(* _.filter(list, predicate) keeps the order of the list.                  *)

RECURSIVE filterByFrequency(_, _)
filterByFrequency(list, minFrequency) ==
  IF list = <<>> THEN <<>>
  ELSE (IF list[1][3] >= minFrequency THEN <<list[1]>> ELSE <<>>)
       \o filterByFrequency(Tail(list), minFrequency)

RECURSIVE filterBySubset(_, _)
filterBySubset(list, boardSet) ==
  IF list = <<>> THEN <<>>
  ELSE (IF isSubset(boardSet, list[1][2]) THEN <<list[1]>> ELSE <<>>)
       \o filterBySubset(Tail(list), boardSet)

(* The functions the code wraps in memoize(), as functions of their        *)
(* arguments and of what their memoized callees returned.                  *)

\* variant: w[2] > minFrequency
RECURSIVE filterAboveFrequency(_, _)
filterAboveFrequency(list, minFrequency) ==
  IF list = <<>> THEN <<>>
  ELSE (IF list[1][3] > minFrequency THEN <<list[1]>> ELSE <<>>)
       \o filterAboveFrequency(Tail(list), minFrequency)

getMinFrequencyWordsAbove(minFrequency) == filterAboveFrequency(words, minFrequency)

\* variant: the dictionary unfiltered
getMinFrequencyWordsAll(minFrequency) == words

getMinFrequencyWords(minFrequency) == filterByFrequency(words, minFrequency)

getWordStructsForBoard(board, minFrequencyWords) ==
  LET boardSet == getCanonical(board)
  IN  filterBySubset(minFrequencyWords, boardSet)

\* variant: positions counted from 1, boardMap[c].push(i + 1)
getBoardPositionMapFromOne(board) ==
  [c \in {board[i] : i \in DOMAIN board} |->
     LET at == {i \in DOMAIN board : board[i] = c}
         RECURSIVE asc(_)
         asc(S) == IF S = {} THEN <<>>
                   ELSE LET m == CHOOSE x \in S : \A y \in S : x <= y
                        IN <<m>> \o asc(S \ {m})
     IN asc(at)]

\* boardMap: letter -> positions, in board order; a letter not on the
\* board has no entry
getBoardPositionMap(board) ==
  [c \in {board[i] : i \in DOMAIN board} |->
     LET at == {i \in DOMAIN board : board[i] = c}
         RECURSIVE asc(_)
         asc(S) == IF S = {} THEN <<>>
                   ELSE LET m == CHOOSE x \in S : \A y \in S : x <= y
                        IN <<m - 1>> \o asc(S \ {m})
     IN asc(at)]

\* _.countBy(arr, _.identity): <<letter, count>> in the order the letters
\* first occur, which is the order for (c in letterCounts) visits them
RECURSIVE countBy(_)
countBy(arr) ==
  IF arr = <<>> THEN <<>>
  ELSE LET rest == countBy(SubSeq(arr, 1, Len(arr) - 1))
           c == arr[Len(arr)]
       IN  IF \E k \in DOMAIN rest : rest[k][1] = c
           THEN [k \in DOMAIN rest |->
                   IF rest[k][1] = c THEN <<c, rest[k][2] + 1>> ELSE rest[k]]
           ELSE Append(rest, <<c, 1>>)

posCombosFor(w, boardPositionMap) ==
  LET letterCounts == countBy(w[2])
  IN  [k \in DOMAIN letterCounts |->
         kCombinations(boardPositionMap[letterCounts[k][1]], letterCounts[k][2])]

movesForWord(w, boardPositionMap) ==
  LET flatCombos == flattenCombos(posCombosFor(w, boardPositionMap))
  IN  [k \in DOMAIN flatCombos |->
         LET bitMask == getBitMaskForPositions(flatCombos[k])
             capturedBitMask == getCapturedBitMask(bitMask)
         IN  <<bitMask, w[1], capturedBitMask>>]

getMovesForBoard(wordStructs, boardPositionMap) ==
  LET pushed == [k \in DOMAIN wordStructs |->
                   movesForWord(wordStructs[k], boardPositionMap)]
  IN  sortByScore(ConcatAll(pushed, 1, Len(wordStructs)))

-----------------------------------------------------------------------------
(* Boards of BOARD_SIZE letters: the letters named at their positions,     *)
(* every other cell a letter no word uses.                                 *)

BoardOf(at) ==
  [i \in 1..BOARD_SIZE |-> IF (i - 1) \in DOMAIN at THEN at[i - 1] ELSE 26]

BoardA == [i \in 1..BOARD_SIZE |-> 1]
BoardMid == BoardOf((2 :> 1) @@ (10 :> 1) @@ (7 :> 2) @@ (11 :> 2) @@ (13 :> 2)
                    @@ (12 :> 3) @@ (17 :> 3) @@ (3 :> 4) @@ (20 :> 5))
BoardCorner == BoardOf((0 :> 1) @@ (6 :> 1) @@ (23 :> 1) @@ (1 :> 2) @@ (5 :> 2)
                       @@ (19 :> 2) @@ (2 :> 3) @@ (24 :> 3))
Boards == {BoardA, BoardMid, BoardCorner}
Frequencies == {DEFAULT_FREQUENCY, MAX_FREQUENCY}


-----------------------------------------------------------------------------
(* memoize(fn) of lru-memoize: a cache of <<arguments, value>> pairs, the  *)
(* most recently used first, holding at most CacheLimit pairs.             *)

CacheLimit == 2
MaxCalls == 4

Has(cache, args) == \E i \in DOMAIN cache : cache[i][1] = args

Value(cache, args) == cache[CHOOSE i \in DOMAIN cache : cache[i][1] = args][2]

Without(cache, args) ==
  LET keep == {i \in DOMAIN cache : cache[i][1] # args}
      RECURSIVE pick(_)
      pick(i) == IF i > Len(cache) THEN <<>>
                 ELSE (IF i \in keep THEN <<cache[i]>> ELSE <<>>) \o pick(i + 1)
  IN  pick(1)

\* args becomes the most recently used pair; the least recently used pairs
\* beyond the limit are dropped
Remember(cache, args, value) ==
  LET all == <<<<args, value>>>> \o Without(cache, args)
  IN  SubSeq(all, 1, IF Len(all) > CacheLimit THEN CacheLimit ELSE Len(all))

\* the arguments each memoized function is called with
getMinFrequencyWordsArgs(minFrequency) == <<minFrequency>>
\* variant: minFrequency taken from the enclosing scope, not an argument
getWordStructsForBoardArgsBoard(board, minFrequency) == <<board>>
getWordStructsForBoardArgs(board, minFrequency) == <<board, minFrequency>>
getBoardPositionMapArgs(board) == <<board>>
getMovesForBoardArgs(board, minFrequency) == <<board, minFrequency>>

(* The pipeline with no cache in it.                                       *)
Uncached(board, minFrequency) ==
  getMovesForBoard(getWordStructsForBoard(board, getMinFrequencyWords(minFrequency)),
                   getBoardPositionMap(board))

\* getMovesForBoard on the inputs the sample boards give is evaluated once
Inputs(board, minFrequency) ==
  <<getWordStructsForBoard(board, getMinFrequencyWords(minFrequency)),
    getBoardPositionMap(board)>>

Evaluated ==
  [key \in Boards \X Frequencies |->
     [in |-> Inputs(key[1], key[2]), out |-> Uncached(key[1], key[2])]] @@ <<>>

movesOf(wordStructs, boardPositionMap) ==
  IF \E key \in DOMAIN Evaluated : Evaluated[key].in = <<wordStructs, boardPositionMap>>
  THEN Evaluated[CHOOSE key \in DOMAIN Evaluated :
                   Evaluated[key].in = <<wordStructs, boardPositionMap>>].out
  ELSE getMovesForBoard(wordStructs, boardPositionMap)

VARIABLES
  freqCache,    \* cache of getMinFrequencyWords
  structCache,  \* cache of getWordStructsForBoard
  mapCache,     \* cache of getBoardPositionMap
  movesCache,   \* cache of getMovesForBoard
  calls,        \* calls of getMovesForBoard made so far
  last,         \* the last call of getMovesForBoard: arguments, result, and
                \* which caches answered
  evicted,      \* the arguments whose result movesCache has dropped
  probe         \* the last call of a function that keeps no state

vars == <<freqCache, structCache, mapCache, movesCache, calls, last, evicted, probe>>

NoCall == [board |-> <<>>, minFrequency |-> 0, ret |-> <<>>, served |-> "none",
           hits |-> {}]
NoProbe == [op |-> "none", arg |-> <<>>, done |-> FALSE, ret |-> <<>>]

Init ==
  /\ freqCache = <<>>
  /\ structCache = <<>>
  /\ mapCache = <<>>
  /\ movesCache = <<>>
  /\ calls = 0
  /\ last = NoCall
  /\ evicted = {}
  /\ probe = NoProbe

(* getMovesForBoard(board, minFrequency), with the memoized calls it makes *)
CallGetMovesForBoard(board, minFrequency) ==
  /\ calls < MaxCalls
  /\ LET kF == getMinFrequencyWordsArgs(minFrequency)
         kS == getWordStructsForBoardArgs(board, minFrequency)
         kB == getBoardPositionMapArgs(board)
         kM == getMovesForBoardArgs(board, minFrequency)
         hitMoves == Has(movesCache, kM)
         hitStructs == Has(structCache, kS)
         hitFreq == Has(freqCache, kF)
         hitMap == Has(mapCache, kB)
         minFrequencyWords ==
           IF hitFreq THEN Value(freqCache, kF) ELSE getMinFrequencyWords(minFrequency)
         wordStructs ==
           IF hitStructs THEN Value(structCache, kS)
           ELSE getWordStructsForBoard(board, minFrequencyWords)
         boardPositionMap ==
           IF hitMap THEN Value(mapCache, kB) ELSE getBoardPositionMap(board)
         moves ==
           IF hitMoves THEN Value(movesCache, kM)
           ELSE movesOf(wordStructs, boardPositionMap)
     IN  /\ movesCache' = Remember(movesCache, kM, moves)
         /\ evicted' = evicted \cup
                         ({movesCache[i][1] : i \in DOMAIN movesCache}
                          \ {movesCache'[i][1] : i \in DOMAIN movesCache'})
         /\ structCache' = IF hitMoves THEN structCache
                           ELSE Remember(structCache, kS, wordStructs)
         /\ freqCache' = IF hitMoves \/ hitStructs THEN freqCache
                         ELSE Remember(freqCache, kF, minFrequencyWords)
         /\ mapCache' = IF hitMoves THEN mapCache
                        ELSE Remember(mapCache, kB, boardPositionMap)
         /\ last' = [board |-> board, minFrequency |-> minFrequency, ret |-> moves,
                     served |-> IF hitMoves THEN "cache" ELSE "computed",
                     hits |-> IF hitMoves THEN {"moves"}
                              ELSE (IF hitStructs THEN {"structs"}
                                    ELSE IF hitFreq THEN {"freq"} ELSE {})
                                   \cup (IF hitMap THEN {"map"} ELSE {})]
  /\ calls' = calls + 1
  /\ UNCHANGED probe

(* The functions that keep no state, called on their own: the arguments   *)
(* of the call are drawn first, then the function is applied.              *)

PosSample == {0, 2, 10, 24}
MaxPositions == 3
PositionSeqs == UNION {[1..n -> PosSample] : n \in 0..MaxPositions}

CaptureRegion == {0, 1, 5, 7, 11, 12, 13, 17}
Masks == {MaskOfSet(S) : S \in SUBSET CaptureRegion} \cup {2 ^ BOARD_SIZE - 1}

Pending(op, arg) == [op |-> op, arg |-> arg, done |-> FALSE, ret |-> <<>>]

InitPure ==
  /\ freqCache = <<>>
  /\ structCache = <<>>
  /\ mapCache = <<>>
  /\ movesCache = <<>>
  /\ calls = 0
  /\ last = NoCall
  /\ evicted = {}
  /\ probe \in {Pending("getBitMaskForPositions", positions) :
                  positions \in PositionSeqs}
          \cup {Pending("getCapturedBitMask", moveBitMask) : moveBitMask \in Masks}
          \cup {Pending("placements", <<board, words[k]>>) :
                  board \in Boards, k \in DOMAIN words}

Return(ret) ==
  /\ ~probe.done
  /\ probe' = [probe EXCEPT !.done = TRUE, !.ret = ret]
  /\ UNCHANGED <<freqCache, structCache, mapCache, movesCache, calls, last, evicted>>

CallGetBitMaskForPositions ==
  /\ probe.op = "getBitMaskForPositions"
  /\ Return(getBitMaskForPositions(probe.arg))

CallGetCapturedBitMask ==
  /\ probe.op = "getCapturedBitMask"
  /\ Return(getCapturedBitMask(probe.arg))

\* the placements of one word the board can spell: the kCombinations of
\* each letter and their flattenCombos
CallPlacements ==
  /\ probe.op = "placements"
  /\ LET board == probe.arg[1]
         w == probe.arg[2]
     IN  /\ isSubset(getCanonical(board), w[2])
         /\ LET posCombos == posCombosFor(w, getBoardPositionMap(board))
            IN  Return(<<posCombos, flattenCombos(posCombos)>>)

Next == \E board \in Boards, minFrequency \in Frequencies :
          CallGetMovesForBoard(board, minFrequency)

NextPure ==
  \/ CallGetBitMaskForPositions
  \/ CallGetCapturedBitMask
  \/ CallPlacements

Spec == Init /\ [][Next]_vars

SpecPure == InitPure /\ [][NextPure]_vars

-----------------------------------------------------------------------------
(* Properties.                                                             *)

Range(f) == {f[i] : i \in DOMAIN f}
FullBoardMask == 2 ^ BOARD_SIZE - 1
PopCount(m) == Cardinality(BitsOf(m))
Letters(str) == Range(str)

\* the word's letters, each as often as the word has it, are on the board
Playable(word, board) ==
  \A c \in Letters(word) : CountOf(word, c) <= CountOf(board, c)

Returned == last.served # "none"
MovesFor(word) == {i \in DOMAIN last.ret : last.ret[i][2] = word}
Expected(board, minFrequency) == Evaluated[<<board, minFrequency>>].out

RECURSIVE Binomial(_, _)
Binomial(n, k) ==
  IF k = 0 THEN 1 ELSE (Binomial(n, k - 1) * (n - k + 1)) \div k

RECURSIVE Placements(_, _, _)
Placements(S, word, board) ==
  IF S = {} THEN 1
  ELSE LET c == CHOOSE x \in S : TRUE
       IN  Binomial(CountOf(board, c), CountOf(word, c))
           * Placements(S \ {c}, word, board)

Ascending(positions) ==
  /\ \A i \in DOMAIN positions : positions[i] \in 0..(BOARD_SIZE - 1)
  /\ \A i, j \in DOMAIN positions : i < j => positions[i] < positions[j]

\* C1: every dictionary word the board can spell, of frequency at least
\* minFrequency, has a move in the result of getMovesForBoard.
C1_EveryPlayableWordHasMove ==
  Returned =>
    \A k \in DOMAIN words :
      (words[k][3] >= last.minFrequency /\ Playable(words[k][1], last.board))
        => MovesFor(words[k][1]) # {}

C1_Witness ==
  /\ Returned
  /\ \E k \in DOMAIN words :
       /\ words[k][3] = last.minFrequency
       /\ Playable(words[k][1], last.board)
       /\ MovesFor(words[k][1]) # {}

\* C2: every returned move carries a dictionary word of frequency at least
\* minFrequency whose letters the board has.
C2_OnlyPlayableWords ==
  Returned =>
    \A i \in DOMAIN last.ret :
      \E k \in DOMAIN words :
        /\ words[k][1] = last.ret[i][2]
        /\ words[k][3] >= last.minFrequency
        /\ Playable(words[k][1], last.board)

C2_Witness ==
  /\ Returned
  /\ last.minFrequency = MAX_FREQUENCY
  /\ last.ret # <<>>
  /\ \E k \in DOMAIN words :
       /\ words[k][3] < last.minFrequency
       /\ Playable(words[k][1], last.board)
       /\ MovesFor(words[k][1]) = {}
  /\ \E k \in DOMAIN words :
       /\ words[k][3] >= last.minFrequency
       /\ ~Playable(words[k][1], last.board)
       /\ MovesFor(words[k][1]) = {}

\* C3: the result is ordered by the number of captured cells, descending,
\* and among equal numbers by word length, descending.
C3_RankedByCapturedCount ==
  Returned =>
    \A i, j \in DOMAIN last.ret :
      i < j =>
        /\ PopCount(last.ret[i][3]) >= PopCount(last.ret[j][3])
        /\ PopCount(last.ret[i][3]) = PopCount(last.ret[j][3])
             => Len(last.ret[i][2]) >= Len(last.ret[j][2])

\* C4: a playable word has as many moves as the product over its letters
\* of C(occurrences on the board, count in the word), all with different
\* move bitmasks.
C4_PlacementCount ==
  Returned =>
    \A k \in DOMAIN words :
      (words[k][3] >= last.minFrequency /\ Playable(words[k][1], last.board))
        => LET word == words[k][1]
               found == MovesFor(word)
           IN  /\ Cardinality(found) = Placements(Letters(word), word, last.board)
               /\ Cardinality({last.ret[i][1] : i \in found}) = Cardinality(found)

C4_Witness ==
  /\ Returned
  /\ last.board = BoardA
  /\ Cardinality(MovesFor(<<1, 1>>)) = 300
  /\ Cardinality({last.ret[i][1] : i \in MovesFor(<<1, 1>>)}) = 300

\* C5: the move bitmask of every returned move has as many set bits as the
\* word has letters.
C5_MaskSizeIsWordLength ==
  Returned =>
    \A i \in DOMAIN last.ret :
      /\ last.ret[i][1] \in 0..FullBoardMask
      /\ PopCount(last.ret[i][1]) = Len(last.ret[i][2])

C5_Witness ==
  /\ Returned
  /\ \E i \in DOMAIN last.ret :
       Len(last.ret[i][2]) = 5 /\ PopCount(last.ret[i][1]) = 5

C8_MaskIdentifiesPositionSet ==
  (probe.op = "getBitMaskForPositions" /\ probe.done) =>
    \A q \in PositionSeqs :
      (getBitMaskForPositions(q) = probe.ret) <=> (Range(q) = Range(probe.arg))

C8_Witness ==
  /\ probe.op = "getBitMaskForPositions"
  /\ probe.done
  /\ Len(probe.arg) = MaxPositions
  /\ \E q \in PositionSeqs :
       /\ q # probe.arg
       /\ Range(q) = Range(probe.arg)
       /\ getBitMaskForPositions(q) = probe.ret
  /\ \E q \in PositionSeqs :
       /\ Len(q) = Len(probe.arg)
       /\ Range(q) # Range(probe.arg)
       /\ getBitMaskForPositions(q) # probe.ret

\* C9: every combination kCombinations returns and every assignment
\* flattenCombos emits is a numerically ascending sequence of distinct
\* board positions.
C9_AssignmentsAscending ==
  (probe.op = "placements" /\ probe.done) =>
    /\ \A k \in DOMAIN probe.ret[1] :
         \A c \in DOMAIN probe.ret[1][k] : Ascending(probe.ret[1][k][c])
    /\ \A k \in DOMAIN probe.ret[2] : Ascending(probe.ret[2][k])

\* C10: the cells of a returned move hold exactly the letters of its word,
\* each as often as the word has it.
C10_MaskCoversWordLetters ==
  Returned =>
    \A i \in DOMAIN last.ret :
      LET cells == BitsOf(last.ret[i][1])
          word == last.ret[i][2]
      IN  /\ last.ret[i][1] \in 0..FullBoardMask
          /\ \A c \in Letters(word) \cup {last.board[p + 1] : p \in cells} :
               Cardinality({p \in cells : last.board[p + 1] = c}) = CountOf(word, c)

C10_Witness ==
  /\ Returned
  /\ \E i \in DOMAIN last.ret :
       /\ last.ret[i][2] = <<1, 2, 2, 1>>
       /\ {last.board[p + 1] : p \in BitsOf(last.ret[i][1])} = {1, 2}

=============================================================================
